---- MODULE Spec2Model ----
(***************************************************************************)
(* Model of the tool-calling loops of the Strike Girl extension:           *)
(*   - CodeReviewer.reviewCode in its two revisions: the one that stages   *)
(*     every write_file as a code suggestion (unnamed/part_002) and the    *)
(*     one that writes straight to disk (src/codeReviewer.ts);             *)
(*   - WebsiteBuilder.buildWebsite (src/websiteBuilder.ts);                *)
(*   - the suggestion cards of the webview and the applySuggestion         *)
(*     handler of ChatbotPanel (src/chatbotPanel.ts, unnamed/part_000).    *)
(* A text is a sequence of one-character strings; "\n" is the newline.     *)
(***************************************************************************)
EXTENDS Integers, Sequences, FiniteSets, TLC

\* ------------------------------------------------------------------ bounds
MaxRounds == 3
MaxBatch == 2
MaxCalls == 3
MaxCards == 2
MaxInbox == 1
MaxLen == 3
MaxEntries == 3

\* ------------------------------------------------------------ input domains
NL == "\n"
Paths == {"a.js", "b.js"}
PathOrder == <<"a.js", "b.js">>
Contents == {<<"a">>, <<"a", NL, "b">>}
BaseDir == "/ws"
\* a file outside the base directory, named by its absolute path, and the same
\* file named relative to the base directory
OutsideFile == "/x.js"
EscapingPath == "../x.js"
Commands == {"mkdir calc"}
\* what exec did with a command: exit code 0 with an empty standard error, with
\* one that contains 'already exists', or with another one; or a non-zero exit
\* code, with a standard error that contains 'already exists' or another one
ExecOutcomes ==
    {"ok", "stderr_benign", "stderr_other", "exit_nonzero", "exit_nonzero_benign"}
FENCE == "fence"
Summaries == {<<"done">>, <<" ", FENCE, "done", FENCE>>}
NoText == <<"<undefined>">>

VARIABLES
    revision,     \* which CodeReviewer revision runs review tasks
    panel,        \* which ChatbotPanel revision renders the suggestion cards
    mode,         \* "none" | "review" | "build"
    pc,           \* "idle" | "infer" | "calls" | "done"
    baseDirectory,
    History,      \* the conversation sent to generateContent
    calls,        \* function calls of the current response still to process
    disk,         \* the files of the project: a function on the existing paths
    cards,        \* suggestion cards of the webview, in arrival order
    inbox,        \* applySuggestion messages posted by the webview, in flight
    inferCalls,   \* generateContent calls issued
    returned,     \* function calls returned by generateContent so far
    dispatches,   \* function calls taken from a response and routed
    handlerCalls, \* tool handlers invoked
    completions,  \* completion reports emitted
    failures,     \* failure reports emitted
    diskWrites,   \* writes to project files performed
    report,       \* the last completion or failure report
    running,      \* tool handlers that have been called and have not returned
    tree,         \* the directory tree handed to list_files, when it is looked into
    chat,         \* the chat request of the user and what the panel did with it
    host,         \* the reviewers and builders the commands created, and their runs
    last          \* the last step of the extension host and what it saw

vars == <<revision, running, tree, chat, host, panel, mode, pc, baseDirectory, History, calls, disk, cards,
          inbox, inferCalls, returned, dispatches, handlerCalls, completions, failures,
          diskWrites, report, last>>

\* -------------------------------------------------------------- text helpers
RECURSIVE SplitFrom(_, _, _)
SplitFrom(text, i, cur) ==
    IF i > Len(text) THEN <<cur>>
    ELSE IF text[i] = NL THEN <<cur>> \o SplitFrom(text, i + 1, <<>>)
    ELSE SplitFrom(text, i + 1, Append(cur, text[i]))

\* String.prototype.split on the newline: the empty text splits into one empty line
Split(text) == SplitFrom(text, 1, <<>>)

Max(a, b) == IF a >= b THEN a ELSE b

RECURSIVE DiffFrom(_, _, _, _, _)
DiffFrom(oldLines, newLines, i, removed, added) ==
    IF i > Max(Len(oldLines), Len(newLines)) THEN [removed |-> removed, added |-> added]
    ELSE IF i > Len(oldLines)
         THEN DiffFrom(oldLines, newLines, i + 1, removed, Append(added, newLines[i]))
    ELSE IF i > Len(newLines)
         THEN DiffFrom(oldLines, newLines, i + 1, Append(removed, oldLines[i]), added)
    ELSE IF oldLines[i] # newLines[i]
         THEN DiffFrom(oldLines, newLines, i + 1, Append(removed, oldLines[i]),
                       Append(added, newLines[i]))
    ELSE DiffFrom(oldLines, newLines, i + 1, removed, added)

\* a diff that lists every line of both texts
generateDiff_EveryLine(oldContent, newContent) ==
    [removed |-> Split(oldContent), added |-> Split(newContent)]

\* a diff that compares character by character
generateDiff_Unsplit(oldContent, newContent) ==
    DiffFrom(oldContent, newContent, 1, <<>>, <<>>)

\* a diff that lists the new and the changed lines, and no removed line
generateDiff_AddedOnly(oldContent, newContent) ==
    [DiffFrom(Split(oldContent), Split(newContent), 1, <<>>, <<>>) EXCEPT !.removed = <<>>]

generateDiff(oldContent, newContent) ==
    DiffFrom(Split(oldContent), Split(newContent), 1, <<>>, <<>>)

\* ----------------------------------------------------------- summary helpers
RECURSIVE RemoveFences(_)
RemoveFences(text) ==
    IF text = <<>> THEN <<>>
    ELSE IF Head(text) = FENCE THEN RemoveFences(Tail(text))
    ELSE <<Head(text)>> \o RemoveFences(Tail(text))

RECURSIVE TrimLeft(_)
TrimLeft(text) ==
    IF text # <<>> /\ Head(text) = " " THEN TrimLeft(Tail(text)) ELSE text

RECURSIVE TrimRight(_)
TrimRight(text) ==
    IF text # <<>> /\ text[Len(text)] = " "
    THEN TrimRight(SubSeq(text, 1, Len(text) - 1)) ELSE text

\* summary.replace(/```/g, '').trim()
FormatSummary(summary) == TrimRight(TrimLeft(RemoveFences(summary)))

\* result.text || ''
SummaryOf(text) == IF text = NoText THEN <<>> ELSE text

\* error?.message || 'Unknown error occurred'
ErrorMsgOf(message) == IF message = <<>> THEN <<"Unknown error occurred">> ELSE message

\* ------------------------------------------------------------ function calls
UnknownName == "delete_file"
ReviewTools == {"list_files", "read_file", "write_file"}
BuildTools == {"executeCommand"}

Call(n, p, c, cmd, g) ==
    [name |-> n, path |-> p, content |-> c, command |-> cmd, given |-> g]

ReviewCalls ==
    {Call("list_files", BaseDir, <<>>, "", {"directory"})}
    \cup {Call("read_file", p, <<>>, "", {"file_path"}) : p \in Paths}
    \cup {Call("write_file", "a.js", c, "", {"file_path", "content"}) : c \in Contents}
    \cup {Call("write_file", "b.js", <<"a">>, "", {"file_path", "content"})}
    \cup {Call("write_file", OutsideFile, <<"a">>, "", {"file_path", "content"})}
    \cup {Call(UnknownName, "a.js", <<>>, "", {"file_path"})}

BuildCalls ==
    {Call("executeCommand", "a.js", c, "", {"filePath", "content"}) : c \in Contents}
    \cup {Call("executeCommand", "b.js", <<"a">>, "", {"filePath", "content"})}
    \cup {Call("executeCommand", p, <<"a">>, "", {"filePath", "content"}) :
               p \in {OutsideFile, EscapingPath}}
    \cup {Call("executeCommand", "", <<>>, cmd, {"command"}) : cmd \in Commands}
    \cup {Call("executeCommand", "a.js", <<>>, "", {"filePath", "content"})}
    \cup {Call("executeCommand", "", <<>>, "", {})}
    \cup {Call(UnknownName, "a.js", <<>>, "", {"filePath"})}

CallsOf(m) == IF m = "review" THEN ReviewCalls ELSE BuildCalls

Batches(m) ==
    UNION {[1..n -> CallsOf(m)] : n \in 1..MaxBatch}

\* the responses of a model that proposes one edit of a project file, or reads
\* one file, at a time
EditCalls ==
    {c \in ReviewCalls : c.name = "write_file" /\ c.path \in Paths}
    \cup {Call("read_file", "a.js", <<>>, "", {"file_path"})}

\* ... and stops calling tools after MaxCards calls
EditBatches == IF returned < MaxCards THEN {<<c>> : c \in EditCalls} ELSE {}

\* getTools(): the names of the string-keyed function map
getTools(m) == IF m = "review" THEN ReviewTools ELSE BuildTools

\* ------------------------------------------------------------------- turns
Turn(r, k, n, b) == [role |-> r, kind |-> k, name |-> n, body |-> b]

UserText(task) == Turn("user", "text", "", [text |-> task])
ModelToolCall(call) == Turn("model", "functionCall", call.name, call)
ToolResult(n, result) == Turn("user", "functionResponse", n, [result |-> result])

ReviewTask == <<"Review and fix all JavaScript code in: ", BaseDir>>
BuildTask == <<"a calculator app">>

\* ------------------------------------------------------------------- disk
\* a file is named by its path relative to the base directory when it lies
\* inside it, and by its absolute path otherwise
Exists(d, p) == p \in DOMAIN d

\* path.isAbsolute(filePath)
IsAbsolute(filePath) == filePath = OutsideFile

\* path.join(baseDirectory, filePath), normalised
PathJoin(base, filePath) == IF filePath = EscapingPath THEN OutsideFile ELSE filePath

WriteTo(d, p, c) == [q \in (DOMAIN d) \cup {p} |-> IF q = p THEN c ELSE d[q]]

\* scan(directory) over the flat project directory: the existing files in
\* directory order (every modelled path has an allowed extension and no
\* deny-listed word in it)
RECURSIVE ScanFrom(_, _)
ScanFrom(d, i) ==
    IF i > Len(PathOrder) THEN <<>>
    ELSE IF Exists(d, PathOrder[i]) THEN <<PathOrder[i]>> \o ScanFrom(d, i + 1)
    ELSE ScanFrom(d, i + 1)

listFiles(d) == [files |-> ScanFrom(d, 1)]

\* no tree is looked into: the project is the flat directory of disk
NoTree == [root |-> <<>>, entries |-> <<>>]

\* no chat request is looked at
NoChat == [text |-> <<>>, apiKey |-> "", folders |-> 0, found |-> FALSE,
           handled |-> FALSE, sent |-> <<>>, commands |-> <<>>]

\* no command has been invoked
NoHost == [agents |-> <<>>, runs |-> <<>>]

\* ------------------------------------------------------------------ reports
NoReport == [kind |-> "none", output |-> <<>>, chat |-> <<>>, reason |-> "none"]

Step(op, call, orig, existed) ==
    [op |-> op, call |-> call, orig |-> orig, existed |-> existed,
     nCards |-> Len(cards), nWrites |-> diskWrites, nHistory |-> Len(History),
     nInfer |-> inferCalls, nDispatch |-> dispatches, card |-> 0, outcome |-> "", sent |-> {}]

NoCall == Call("", "", <<>>, "", {})

\* the step together with the kinds of notification it sent to the chatbot
\* panel: "message" (sendMessage), "progress" (sendProgress), "progressComplete"
\* (sendProgressComplete), "error" (sendError), "warning" (the standard error of
\* a command sent as a message), "suggestion" (sendCodeSuggestion)
Sending(step, kinds) == [step EXCEPT !.sent = kinds]

\* the notifications of the loop before it calls a review handler
ActionNotice == IF revision = "part_002" THEN {"message", "progress"} ELSE {"progress"}

\* the notifications of the else branch and of the catch block of the loop
CompletionNotice ==
    IF mode = "review" /\ revision = "codeReviewer.ts" THEN {"message"}
    ELSE {"message", "progressComplete"}

FailureNotice == IF mode = "build" THEN {"error", "progressComplete"} ELSE {"error"}

NoStep ==
    [op |-> "init", call |-> NoCall, orig |-> <<>>, existed |-> FALSE,
     nCards |-> 0, nWrites |-> 0, nHistory |-> 0, nInfer |-> 0,
     nDispatch |-> 0, card |-> 0, outcome |-> "", sent |-> {}]

\* -------------------------------------------------------------------- Init
Revisions == {"part_002", "codeReviewer.ts"}
Panels == {"chatbotPanel.ts", "part_000"}

\* the project before the run: a.js exists, b.js does not
InitialDisks == [{"a.js"} -> Contents]

\* nothing has run yet
Fresh ==
    /\ mode = "none"
    /\ pc = "idle"
    /\ baseDirectory = ""
    /\ History = <<>>
    /\ calls = <<>>
    /\ disk \in InitialDisks
    /\ cards = <<>>
    /\ inbox = <<>>
    /\ inferCalls = 0
    /\ returned = 0
    /\ dispatches = 0
    /\ handlerCalls = 0
    /\ completions = 0
    /\ failures = 0
    /\ diskWrites = 0
    /\ report = NoReport
    /\ running = {}
    /\ tree = NoTree
    /\ chat = NoChat
    /\ host = NoHost
    /\ last = NoStep

\* ------------------------------------------------------------ the agent loop
Running == pc \in {"infer", "calls"}

\* reviewCode(directoryPath): lines before the while loop
StartReview ==
    /\ pc = "idle"
    /\ mode' = "review"
    /\ baseDirectory' = IF revision = "part_002" THEN BaseDir ELSE baseDirectory
    /\ History' = <<UserText(ReviewTask)>>
    /\ pc' = "infer"
    /\ last' = Sending(Step("start", NoCall, <<>>, FALSE), ActionNotice)
    /\ UNCHANGED <<revision, running, tree, chat, host, panel, calls, disk, cards, inbox, inferCalls, returned, dispatches,
                   handlerCalls, completions, failures, diskWrites, report>>

\* buildWebsite(projectDescription, workspacePath): lines before the while loop
StartBuild ==
    /\ pc = "idle"
    /\ mode' = "build"
    /\ baseDirectory' = BaseDir
    /\ History' = <<UserText(BuildTask)>>
    /\ pc' = "infer"
    /\ last' = Sending(Step("start", NoCall, <<>>, FALSE), {"message", "progress"})
    /\ UNCHANGED <<revision, running, tree, chat, host, panel, calls, disk, cards, inbox, inferCalls, returned, dispatches,
                   handlerCalls, completions, failures, diskWrites, report>>

\* the catch block of the loop: report the error and break
Fail(message, reason) ==
    /\ failures' = failures + 1
    /\ report' = [kind |-> "failure", output |-> ErrorMsgOf(message),
                  chat |-> ErrorMsgOf(message), reason |-> reason]
    /\ pc' = "done"
    /\ calls' = <<>>

InferenceErrors == {<<"quota exceeded">>, <<>>}

\* a loop that reports the error and tries the round again
GenerateFails_Retry ==
    /\ pc = "infer"
    /\ inferCalls < MaxRounds
    /\ inferCalls' = inferCalls + 1
    /\ failures' = failures + 1
    /\ report' = [kind |-> "failure", output |-> <<"quota exceeded">>,
                  chat |-> <<"quota exceeded">>, reason |-> "inference"]
    /\ last' = Sending(Step("inferFail", NoCall, <<>>, FALSE), FailureNotice)
    /\ UNCHANGED <<revision, running, tree, chat, host, panel, mode, pc, baseDirectory, History, calls, disk, cards,
                   inbox, returned, dispatches, handlerCalls, completions, diskWrites>>

\* generateContent rejects
GenerateFails ==
    /\ pc = "infer"
    /\ inferCalls < MaxRounds
    /\ inferCalls' = inferCalls + 1
    /\ \E message \in InferenceErrors : Fail(message, "inference")
    /\ UNCHANGED returned
    /\ last' = Sending(Step("inferFail", NoCall, <<>>, FALSE), FailureNotice)
    /\ UNCHANGED <<revision, running, tree, chat, host, panel, mode, baseDirectory, History, disk, cards, inbox,
                   dispatches, handlerCalls, completions, diskWrites>>

\* the chat message of the completion report, after its fixed prefix
ChatSummary(summary) ==
    IF mode = "review" /\ revision = "part_002" THEN FormatSummary(summary) ELSE summary

\* an else branch without its break
GenerateText_NoBreak ==
    /\ pc = "infer"
    /\ inferCalls < MaxRounds
    /\ inferCalls' = inferCalls + 1
    /\ \E text \in Summaries \cup {NoText} :
          /\ report' = [kind |-> "completion", output |-> SummaryOf(text),
                        chat |-> ChatSummary(SummaryOf(text)), reason |-> "text"]
          /\ last' = Sending(Step("inferText", NoCall, text, FALSE), CompletionNotice)
    /\ completions' = completions + 1
    /\ UNCHANGED <<revision, running, tree, chat, host, panel, mode, pc, baseDirectory, History, calls, disk, cards,
                   inbox, returned, dispatches, handlerCalls, failures, diskWrites>>

\* generateContent resolves without function calls: the else branch
GenerateText ==
    /\ pc = "infer"
    /\ inferCalls < MaxRounds
    /\ inferCalls' = inferCalls + 1
    /\ \E text \in Summaries \cup {NoText} :
          /\ report' = [kind |-> "completion", output |-> SummaryOf(text),
                        chat |-> ChatSummary(SummaryOf(text)), reason |-> "text"]
          /\ last' = Sending(Step("inferText", NoCall, text, FALSE), CompletionNotice)
    /\ completions' = completions + 1
    /\ pc' = "done"
    /\ UNCHANGED returned
    /\ UNCHANGED <<revision, running, tree, chat, host, panel, mode, baseDirectory, History, calls, disk, cards,
                   inbox, dispatches, handlerCalls, failures, diskWrites>>

\* generateContent resolves with function calls: the for loop is entered
GenerateCalls(batches) ==
    /\ pc = "infer"
    /\ inferCalls < MaxRounds
    /\ inferCalls' = inferCalls + 1
    /\ \E batch \in batches :
          /\ returned + Len(batch) <= MaxCalls
          /\ calls' = batch
          /\ returned' = returned + Len(batch)
    /\ pc' = "calls"
    /\ last' = Step("inferCalls", NoCall, <<>>, FALSE)
    /\ UNCHANGED <<revision, running, tree, chat, host, panel, mode, baseDirectory, History, disk, cards, inbox,
                   dispatches, handlerCalls, completions, failures, diskWrites, report>>

\* the end of one iteration of the for loop
NextCall ==
    /\ calls' = Tail(calls)
    /\ pc' = IF Tail(calls) = <<>> THEN "infer" ELSE "calls"

\* a loop that keeps the task and the latest exchange only
PushResult_Trimmed(call, result) ==
    /\ History' = <<History[1], ModelToolCall(call), ToolResult(call.name, result)>>
    /\ NextCall

\* a loop that pushes the response without the function call it answers
PushResult_ResponseOnly(call, result) ==
    /\ History' = Append(History, ToolResult(call.name, result))
    /\ NextCall

\* History.push of the function call and of its response
PushResult(call, result) ==
    /\ History' = History \o <<ModelToolCall(call), ToolResult(call.name, result)>>
    /\ NextCall

\* an unknown name that throws instead of being skipped
SkipUnknown_Fatal ==
    /\ pc = "calls"
    /\ Head(calls).name \notin getTools(mode)
    /\ dispatches' = dispatches + 1
    /\ Fail(<<"unknown function">>, "handler")
    /\ last' = Sending(Step("unknown", Head(calls), <<>>, FALSE), FailureNotice)
    /\ UNCHANGED <<revision, running, tree, chat, host, panel, mode, baseDirectory, History, disk, cards, inbox,
                   inferCalls, returned, handlerCalls, completions, diskWrites>>

\* if (!name || !(name in tools)) { appendLine(...); continue; }
SkipUnknown ==
    /\ pc = "calls"
    /\ Head(calls).name \notin getTools(mode)
    /\ dispatches' = dispatches + 1
    /\ NextCall
    /\ last' = Step("unknown", Head(calls), <<>>, FALSE)
    /\ UNCHANGED <<revision, running, tree, chat, host, panel, mode, baseDirectory, History, disk, cards, inbox,
                   inferCalls, returned, handlerCalls, completions, failures, diskWrites, report>>

\* tools['list_files'](args)
DispatchListFiles ==
    /\ pc = "calls"
    /\ mode = "review"
    /\ Head(calls).name = "list_files"
    /\ dispatches' = dispatches + 1
    /\ handlerCalls' = handlerCalls + 1
    /\ PushResult(Head(calls), listFiles(disk))
    /\ last' = Sending(Step("list_files", Head(calls), <<>>, FALSE), ActionNotice)
    /\ UNCHANGED <<revision, running, tree, chat, host, panel, mode, baseDirectory, disk, cards, inbox, inferCalls, returned,
                   completions, failures, diskWrites, report>>

\* tools['read_file'](args): readFileSync throws on a missing file and the
\* exception reaches the catch block of the loop
DispatchReadFile ==
    /\ pc = "calls"
    /\ mode = "review"
    /\ Head(calls).name = "read_file"
    /\ dispatches' = dispatches + 1
    /\ handlerCalls' = handlerCalls + 1
    /\ LET call == Head(calls) IN
         /\ last' = Sending(Step("read_file", call,
                                 IF Exists(disk, call.path) THEN disk[call.path] ELSE <<>>,
                                 Exists(disk, call.path)),
                            IF Exists(disk, call.path) THEN ActionNotice
                            ELSE ActionNotice \cup FailureNotice)
         /\ IF Exists(disk, call.path)
            THEN /\ PushResult(call, [content |-> disk[call.path]])
                 /\ UNCHANGED <<failures, report>>
            ELSE /\ Fail(<<"ENOENT">>, "handler")
                 /\ UNCHANGED History
    /\ UNCHANGED <<revision, running, tree, chat, host, panel, mode, baseDirectory, disk, cards, inbox, inferCalls, returned,
                   completions, diskWrites>>

\* getRelativePath(filePath): the modelled paths are named relative to the
\* base directory
getRelativePath(filePath) == filePath

\* the suggestion object handed to sendCodeSuggestion, as the card the webview
\* builds for it (addSuggestion): the buttons start enabled and visible
Suggestion(filePath, originalContent, content) ==
    [filePath |-> filePath,
     originalContent |-> originalContent,
     suggestedContent |-> content,
     diff |-> generateDiff(originalContent, content),
     relativePath |-> getRelativePath(filePath),
     hidden |-> FALSE, hiddenPairs |-> {},
     lineBtnsDisabled |-> FALSE, applyDisabled |-> FALSE, writes |-> 0]

\* a writeFile that stages the suggestion and writes the file as well
writeFile_WritesThrough(call) ==
    LET originalContent == IF Exists(disk, call.path) THEN disk[call.path] ELSE <<>>
    IN  /\ last' = Sending(Step("write_file", call, originalContent, Exists(disk, call.path)),
                         IF originalContent = call.content THEN ActionNotice
                         ELSE ActionNotice \cup {"suggestion"})
        /\ IF originalContent = call.content
           THEN cards' = cards
           ELSE cards' = Append(cards, Suggestion(call.path, originalContent, call.content))
        /\ PushResult(call, [success |-> TRUE])
        /\ disk' = WriteTo(disk, call.path, call.content)
        /\ diskWrites' = diskWrites + 1

\* a writeFile without the "no changes needed" return
writeFile_NoShortCircuit(call) ==
    LET originalContent == IF Exists(disk, call.path) THEN disk[call.path] ELSE <<>>
    IN  /\ last' = Sending(Step("write_file", call, originalContent, Exists(disk, call.path)), ActionNotice \cup {"suggestion"})
        /\ cards' = Append(cards, Suggestion(call.path, originalContent, call.content))
        /\ PushResult(call, [success |-> TRUE])
        /\ UNCHANGED <<disk, diskWrites>>

\* a writeFile that takes a missing file as a text of no line at all
writeFile_NewFileHasNoLine(call) ==
    LET originalContent == IF Exists(disk, call.path) THEN disk[call.path] ELSE <<>>
        suggestion == Suggestion(call.path, originalContent, call.content)
    IN  /\ last' = Sending(Step("write_file", call, originalContent, Exists(disk, call.path)),
                         IF originalContent = call.content THEN ActionNotice
                         ELSE ActionNotice \cup {"suggestion"})
        /\ IF originalContent = call.content
           THEN cards' = cards
           ELSE cards' = Append(cards,
                                IF Exists(disk, call.path) THEN suggestion
                                ELSE [suggestion EXCEPT
                                        !.diff = [removed |-> <<>>,
                                                  added |-> Split(call.content)]])
        /\ PushResult(call, [success |-> TRUE])
        /\ UNCHANGED <<disk, diskWrites>>

\* writeFile of the staging revision: compare with the file on disk, then
\* either report "no changes needed" or hand a suggestion to the panel
writeFile(call) ==
    LET originalContent == IF Exists(disk, call.path) THEN disk[call.path] ELSE <<>>
    IN  /\ last' = Sending(Step("write_file", call, originalContent, Exists(disk, call.path)),
                         IF originalContent = call.content THEN ActionNotice
                         ELSE ActionNotice \cup {"suggestion"})
        /\ IF originalContent = call.content
           THEN cards' = cards
           ELSE cards' = Append(cards, Suggestion(call.path, originalContent, call.content))
        /\ PushResult(call, [success |-> TRUE])
        /\ UNCHANGED <<disk, diskWrites>>

\* tools['write_file'](args) in unnamed/part_002
DispatchWriteFile ==
    /\ pc = "calls"
    /\ mode = "review"
    /\ revision = "part_002"
    /\ Head(calls).name = "write_file"
    /\ Len(cards) < MaxCards
    /\ dispatches' = dispatches + 1
    /\ handlerCalls' = handlerCalls + 1
    /\ writeFile(Head(calls))
    /\ UNCHANGED <<revision, running, tree, chat, host, panel, mode, baseDirectory, inbox, inferCalls, returned,
                   completions, failures, report>>

\* writeFile of src/codeReviewer.ts: fs.writeFileSync(filePath, content)
writeFileDirect(call) ==
    /\ last' = Sending(Step("write_file", call,
                            IF Exists(disk, call.path) THEN disk[call.path] ELSE <<>>,
                            Exists(disk, call.path)), ActionNotice)
    /\ disk' = WriteTo(disk, call.path, call.content)
    /\ diskWrites' = diskWrites + 1
    /\ PushResult(call, [success |-> TRUE])
    /\ UNCHANGED cards

\* tools['write_file'](args) in src/codeReviewer.ts
DispatchWriteFileDirect ==
    /\ pc = "calls"
    /\ mode = "review"
    /\ revision = "codeReviewer.ts"
    /\ Head(calls).name = "write_file"
    /\ dispatches' = dispatches + 1
    /\ handlerCalls' = handlerCalls + 1
    /\ writeFileDirect(Head(calls))
    /\ UNCHANGED <<revision, running, tree, chat, host, panel, mode, baseDirectory, inbox, inferCalls, returned,
                   completions, failures, report>>

\* JavaScript truthiness of an argument of the call
Truthy(call, field) ==
    /\ field \in call.given
    /\ IF field = "content" THEN call.content # <<>>
       ELSE IF field = "filePath" THEN call.path # ""
       ELSE call.command # ""

\* the standard error of the command, by what it says
Stderr(outcome) ==
    IF outcome = "ok" THEN "empty"
    ELSE IF outcome \in {"stderr_benign", "exit_nonzero_benign"} THEN "already exists"
    ELSE "other"

\* a result that forgives every command whose standard error says 'already exists'
ExecResult_BenignIsSuccess(outcome) ==
    IF outcome = "exit_nonzero" THEN [success |-> FALSE, message |-> "Error: exception"]
    ELSE IF outcome = "stderr_other" THEN [success |-> FALSE, message |-> "Error: stderr"]
    ELSE [success |-> TRUE, message |-> "Success: stdout"]

\* the result of executeCommand for a shell command, by what exec did
ExecResult(outcome) ==
    IF outcome \in {"exit_nonzero", "exit_nonzero_benign"} THEN [success |-> FALSE, message |-> "Error: exception"]
    ELSE IF outcome = "stderr_other" THEN [success |-> FALSE, message |-> "Error: stderr"]
    ELSE [success |-> TRUE, message |-> "Success: stdout"]

\* the body of executeCommand: write the file, or run the command, or refuse
executeCommandBody(call) ==
    LET fullPath == IF IsAbsolute(call.path) THEN call.path
                    ELSE PathJoin(baseDirectory, call.path)
    IN
         IF Truthy(call, "content") /\ Truthy(call, "filePath")
         THEN /\ disk' = WriteTo(disk, fullPath, call.content)
              /\ diskWrites' = diskWrites + 1
              /\ PushResult(call, [success |-> TRUE, message |-> "Success: File created"])
              /\ last' = [Step("executeCommand", call,
                               IF Exists(disk, fullPath) THEN disk[fullPath] ELSE <<>>,
                               Exists(disk, fullPath)) EXCEPT !.outcome = "write", !.sent = {"message"}]
         ELSE IF Truthy(call, "command")
         THEN /\ \E outcome \in ExecOutcomes :
                    /\ PushResult(call, ExecResult(outcome))
                    /\ last' = [Step("executeCommand", call, <<>>, FALSE) EXCEPT
                                  !.outcome = outcome,
                                  !.sent = IF outcome \in {"exit_nonzero", "exit_nonzero_benign"}
                                           THEN {"message", "error"}
                                           ELSE IF outcome = "stderr_other"
                                           THEN {"message", "warning"}
                                           ELSE {"message"}]
              /\ UNCHANGED <<disk, diskWrites>>
         ELSE /\ PushResult(call, [success |-> FALSE,
                                  message |-> "Error: No command or content provided"])
              /\ last' = [Step("executeCommand", call, <<>>, FALSE) EXCEPT !.outcome = "nothing"]
              /\ UNCHANGED <<disk, diskWrites>>

\* tools['executeCommand'](args) in src/websiteBuilder.ts, from the call to the
\* push of its result
executeCommand ==
    /\ pc = "calls"
    /\ mode = "build"
    /\ Head(calls).name = "executeCommand"
    /\ dispatches' = dispatches + 1
    /\ handlerCalls' = handlerCalls + 1
    /\ executeCommandBody(Head(calls))
    /\ UNCHANGED <<revision, running, tree, chat, host, panel, mode, baseDirectory, cards, inbox, inferCalls, returned,
                   completions, failures, report>>

\* the handler as a promise of its caller
Handler(call) == [call |-> call, id |-> handlerCalls + 1]

\* a loop that calls the handler and goes on without awaiting it
CallExecuteCommand_NoAwait ==
    /\ pc = "calls"
    /\ mode = "build"
    /\ Head(calls).name = "executeCommand"
    /\ dispatches' = dispatches + 1
    /\ handlerCalls' = handlerCalls + 1
    /\ running' = running \cup {Handler(Head(calls))}
    /\ NextCall
    /\ last' = [Step("executeCommand", Head(calls), <<>>, FALSE) EXCEPT !.outcome = "pending"]
    /\ UNCHANGED <<revision, tree, chat, host, panel, mode, baseDirectory, History, disk, cards, inbox,
                   inferCalls, returned, completions, failures, diskWrites, report>>

\* await tools[name](args): the handler is called and the loop waits for it
CallExecuteCommand ==
    /\ pc = "calls"
    /\ mode = "build"
    /\ Head(calls).name = "executeCommand"
    /\ dispatches' = dispatches + 1
    /\ handlerCalls' = handlerCalls + 1
    /\ running' = running \cup {Handler(Head(calls))}
    /\ pc' = "await"
    /\ last' = [Step("executeCommand", Head(calls), <<>>, FALSE) EXCEPT !.outcome = "pending"]
    /\ UNCHANGED <<revision, tree, chat, host, panel, mode, baseDirectory, History, calls, disk, cards, inbox,
                   inferCalls, returned, completions, failures, diskWrites, report>>

\* the awaited handler returns: its effect is done and its result is pushed
ExecuteCommandReturns ==
    /\ pc = "await"
    /\ \E h \in running :
          /\ running' = running \ {h}
          /\ executeCommandBody(h.call)
    /\ UNCHANGED <<revision, tree, chat, host, panel, mode, baseDirectory, cards, inbox, inferCalls, returned,
                   dispatches, handlerCalls, completions, failures, report>>

\* ------------------------------------------------- the cards of the webview
NumPairs(card) == Max(Len(card.diff.removed), Len(card.diff.added))

VisiblePairs(card) == (1..NumPairs(card)) \ card.hiddenPairs

\* vscode.postMessage({ command: 'applySuggestion', suggestion })
PostApply(i) ==
    /\ Len(inbox) < MaxInbox
    /\ inbox' = Append(inbox, [card |-> i, filePath |-> cards[i].filePath,
                               suggestedContent |-> cards[i].suggestedContent])

\* a click in the webview touches nothing of the extension host
UiFrame ==
    UNCHANGED <<revision, running, tree, chat, host, panel, mode, pc, baseDirectory, History, calls, disk,
                inferCalls, returned, dispatches, handlerCalls, completions, failures,
                diskWrites, report, last>>

\* a Keep that posts the added line of its own pair only
KeepLine_OnlyThatLine ==
    /\ panel = "chatbotPanel.ts"
    /\ \E i \in 1..Len(cards) :
          /\ ~cards[i].hidden
          /\ ~cards[i].lineBtnsDisabled
          /\ Len(inbox) < MaxInbox
          /\ \E j \in VisiblePairs(cards[i]) :
                inbox' = Append(inbox,
                                [card |-> i, filePath |-> cards[i].filePath,
                                 suggestedContent |->
                                     IF j <= Len(cards[i].diff.added)
                                     THEN cards[i].diff.added[j] ELSE <<>>])
          /\ cards' = [cards EXCEPT ![i].lineBtnsDisabled = TRUE]
    /\ UiFrame

\* keepBtn.onclick of a diff pair
KeepLine ==
    /\ panel = "chatbotPanel.ts"
    /\ \E i \in 1..Len(cards) :
          /\ ~cards[i].hidden
          /\ ~cards[i].lineBtnsDisabled
          /\ VisiblePairs(cards[i]) # {}
          /\ PostApply(i)
          /\ cards' = [cards EXCEPT ![i].lineBtnsDisabled = TRUE]
    /\ UiFrame

\* undoBtn.onclick of a diff pair
UndoLine ==
    /\ panel = "chatbotPanel.ts"
    /\ \E i \in 1..Len(cards) :
          /\ ~cards[i].hidden
          /\ ~cards[i].lineBtnsDisabled
          /\ \E j \in VisiblePairs(cards[i]) :
                cards' = [cards EXCEPT ![i].hiddenPairs = @ \cup {j}]
    /\ UNCHANGED inbox
    /\ UiFrame

\* a Keep All that looks its buttons up in the whole document
KeepAll_WholeDocument ==
    /\ panel = "chatbotPanel.ts"
    /\ \E i \in 1..Len(cards) :
          /\ ~cards[i].hidden
          /\ ~cards[i].applyDisabled
          /\ PostApply(i)
          /\ cards' = [j \in 1..Len(cards) |->
                          [cards[j] EXCEPT !.lineBtnsDisabled = TRUE,
                                           !.applyDisabled = TRUE]]
    /\ UiFrame

\* keepAllBtn.onclick
KeepAll ==
    /\ panel = "chatbotPanel.ts"
    /\ \E i \in 1..Len(cards) :
          /\ ~cards[i].hidden
          /\ ~cards[i].applyDisabled
          /\ PostApply(i)
          /\ cards' = [cards EXCEPT ![i].lineBtnsDisabled = TRUE,
                                    ![i].applyDisabled = TRUE]
    /\ UiFrame

\* undoAllBtn.onclick
UndoAll ==
    /\ panel = "chatbotPanel.ts"
    /\ \E i \in 1..Len(cards) :
          /\ ~cards[i].hidden
          /\ cards' = [cards EXCEPT ![i].hidden = TRUE]
    /\ UNCHANGED inbox
    /\ UiFrame

\* applyBtn.onclick (Accept Suggestion) in unnamed/part_000
Accept ==
    /\ panel = "part_000"
    /\ \E i \in 1..Len(cards) :
          /\ ~cards[i].hidden
          /\ ~cards[i].applyDisabled
          /\ PostApply(i)
          /\ cards' = [cards EXCEPT ![i].applyDisabled = TRUE]
    /\ UiFrame

\* dismissBtn.onclick in unnamed/part_000
Dismiss ==
    /\ panel = "part_000"
    /\ \E i \in 1..Len(cards) :
          /\ ~cards[i].hidden
          /\ cards' = [cards EXCEPT ![i].hidden = TRUE]
    /\ UNCHANGED inbox
    /\ UiFrame

\* an apply handler that refuses to write a file that is no longer what the
\* edit was staged against
_handleApplySuggestion_ChecksOriginal ==
    /\ inbox # <<>>
    /\ ~(mode = "review" /\ pc = "calls")
    /\ LET msg == Head(inbox)
           now == IF Exists(disk, msg.filePath) THEN disk[msg.filePath] ELSE <<>>
       IN
         /\ last' = [NoStep EXCEPT !.op = "apply", !.sent = {"message"}, !.card = msg.card,
                                    !.existed = Exists(disk, msg.filePath),
                                    !.orig = now]
         /\ IF now # cards[msg.card].originalContent
            THEN UNCHANGED <<disk, cards, diskWrites>>
            ELSE /\ disk' = WriteTo(disk, msg.filePath, msg.suggestedContent)
                 /\ cards' = [cards EXCEPT ![msg.card].writes = @ + 1]
                 /\ diskWrites' = diskWrites + 1
    /\ inbox' = Tail(inbox)
    /\ UNCHANGED <<revision, running, tree, chat, host, panel, mode, pc, baseDirectory, History, calls,
                   inferCalls, returned, dispatches, handlerCalls, completions, failures, report>>

\* an apply handler that drops the decisions that arrive after the run has ended
_handleApplySuggestion_RunOnly ==
    /\ inbox # <<>>
    /\ ~(mode = "review" /\ pc = "calls")
    /\ LET msg == Head(inbox) IN
         /\ last' = [NoStep EXCEPT !.op = "apply", !.sent = {"message"}, !.card = msg.card,
                                    !.existed = Exists(disk, msg.filePath),
                                    !.orig = IF Exists(disk, msg.filePath)
                                             THEN disk[msg.filePath] ELSE <<>>]
         /\ IF pc = "done"
            THEN UNCHANGED <<disk, cards, diskWrites>>
            ELSE /\ disk' = WriteTo(disk, msg.filePath, msg.suggestedContent)
                 /\ cards' = [cards EXCEPT ![msg.card].writes = @ + 1]
                 /\ diskWrites' = diskWrites + 1
    /\ inbox' = Tail(inbox)
    /\ UNCHANGED <<revision, running, tree, chat, host, panel, mode, pc, baseDirectory, History, calls,
                   inferCalls, returned, dispatches, handlerCalls, completions, failures, report>>

\* _handleApplySuggestion(message.suggestion); a review loop yields to the
\* message handler only while it awaits generateContent
_handleApplySuggestion ==
    /\ inbox # <<>>
    /\ ~(mode = "review" /\ pc = "calls")
    /\ LET msg == Head(inbox) IN
         /\ last' = [NoStep EXCEPT !.op = "apply", !.sent = {"message"}, !.card = msg.card,
                                    !.existed = Exists(disk, msg.filePath),
                                    !.orig = IF Exists(disk, msg.filePath)
                                             THEN disk[msg.filePath] ELSE <<>>]
         /\ disk' = WriteTo(disk, msg.filePath, msg.suggestedContent)
         /\ cards' = [cards EXCEPT ![msg.card].writes = @ + 1]
    /\ diskWrites' = diskWrites + 1
    /\ inbox' = Tail(inbox)
    /\ UNCHANGED <<revision, running, tree, chat, host, panel, mode, pc, baseDirectory, History, calls,
                   inferCalls, returned, dispatches, handlerCalls, completions, failures, report>>

\* ------------------------------------------------------------ specification
Init ==
    /\ revision \in Revisions
    /\ panel = "chatbotPanel.ts"
    /\ Fresh

\* a review or build run against a model that may return any batch of calls
LoopNext ==
    \/ StartReview
    \/ StartBuild
    \/ GenerateFails
    \/ GenerateText
    \/ GenerateCalls(Batches(mode))
    \/ SkipUnknown
    \/ DispatchListFiles
    \/ DispatchReadFile
    \/ DispatchWriteFile
    \/ DispatchWriteFileDirect
    \/ executeCommand

Spec == Init /\ [][LoopNext]_vars

\* a staging review run together with the user acting on the suggestion cards
ApprovalInit ==
    /\ revision = "part_002"
    /\ panel \in Panels
    /\ Fresh
    /\ disk["a.js"] = <<"a">>

ApprovalNext ==
    \/ StartReview
    \/ GenerateFails
    \/ GenerateText
    \/ GenerateCalls(EditBatches)
    \/ DispatchReadFile
    \/ DispatchWriteFile
    \/ KeepLine
    \/ UndoLine
    \/ KeepAll
    \/ UndoAll
    \/ Accept
    \/ Dismiss
    \/ _handleApplySuggestion

SpecApproval == ApprovalInit /\ [][ApprovalNext]_vars

\* a build run in which the handler is seen while it is in progress
AwaitInit ==
    /\ revision = "part_002"
    /\ panel = "chatbotPanel.ts"
    /\ Fresh

AwaitNext ==
    \/ StartBuild
    \/ GenerateFails
    \/ GenerateText
    \/ GenerateCalls(Batches(mode))
    \/ SkipUnknown
    \/ CallExecuteCommand
    \/ ExecuteCommandReturns

SpecAwait == AwaitInit /\ [][AwaitNext]_vars

\* ------------------------------------------------------- generateDiff alone
Chars == {"a", "b", NL}

\* every text of at most MaxLen characters
Texts == UNION {[1..n -> Chars] : n \in 0..MaxLen}

\* a.js holds any text and the model proposes any text for it
DiffInit ==
    /\ revision = "part_002"
    /\ panel = "chatbotPanel.ts"
    /\ mode = "review"
    /\ pc = "calls"
    /\ baseDirectory = BaseDir
    /\ History = <<UserText(ReviewTask)>>
    /\ disk \in [{"a.js"} -> Texts]
    /\ \E content \in Texts :
          calls = <<Call("write_file", "a.js", content, "", {"file_path", "content"})>>
    /\ cards = <<>>
    /\ inbox = <<>>
    /\ inferCalls = 1
    /\ returned = 1
    /\ dispatches = 0
    /\ handlerCalls = 0
    /\ completions = 0
    /\ failures = 0
    /\ diskWrites = 0
    /\ report = NoReport
    /\ running = {}
    /\ tree = NoTree
    /\ chat = NoChat
    /\ host = NoHost
    /\ last = NoStep

\* this.generateDiff(originalContent, content) and the suggestion built from it
CallGenerateDiff ==
    /\ pc = "calls"
    /\ cards = <<>>
    /\ LET call == Head(calls) IN
         /\ cards' = <<Suggestion(call.path, disk[call.path], call.content)>>
         /\ last' = Step("generateDiff", call, disk[call.path], TRUE)
    /\ UNCHANGED <<revision, running, tree, chat, host, panel, mode, pc, baseDirectory, History, calls, disk, inbox,
                   inferCalls, returned, dispatches, handlerCalls, completions, failures,
                   diskWrites, report>>

SpecDiff == DiffInit /\ [][CallGenerateDiff]_vars

\* ------------------------------------------------- write_file of a new file
NoFiles == [p \in {} |-> <<>>]

\* the model proposes any text for a file that may not exist yet
NewFileInit ==
    /\ revision = "part_002"
    /\ panel = "chatbotPanel.ts"
    /\ mode = "review"
    /\ pc = "calls"
    /\ baseDirectory = BaseDir
    /\ History = <<UserText(ReviewTask)>>
    /\ disk \in {NoFiles} \cup [{"a.js"} -> Contents]
    /\ \E p \in Paths, content \in Texts :
          calls = <<Call("write_file", p, content, "", {"file_path", "content"})>>
    /\ cards = <<>>
    /\ inbox = <<>>
    /\ inferCalls = 1
    /\ returned = 1
    /\ dispatches = 0
    /\ handlerCalls = 0
    /\ completions = 0
    /\ failures = 0
    /\ diskWrites = 0
    /\ report = NoReport
    /\ running = {}
    /\ tree = NoTree
    /\ chat = NoChat
    /\ host = NoHost
    /\ last = NoStep

SpecNewFile == NewFileInit /\ [][DispatchWriteFile]_vars

\* ------------------------------------------- the lines of one suggestion card
\* the model proposes any text for a.js
LinesInit ==
    /\ NewFileInit
    /\ Head(calls).path = "a.js"

\* the edit is staged and the user acts on the lines of its card
LinesNext ==
    \/ DispatchWriteFile
    \/ KeepLine
    \/ UndoLine
    \/ KeepAll
    \/ UndoAll
    \/ _handleApplySuggestion

SpecLines == LinesInit /\ [][LinesNext]_vars

\* --------------------------------------- a file that other programs write too
\* another program saves the target of an edit that is staged and not applied
ExternalEdit ==
    /\ cards # <<>>
    /\ \A i \in 1..Len(cards) : cards[i].writes = 0
    /\ \E content \in Contents : disk' = WriteTo(disk, cards[1].filePath, content)
    /\ UNCHANGED <<revision, running, tree, chat, host, panel, mode, pc, baseDirectory,
                   History, calls, cards, inbox, inferCalls, returned, dispatches,
                   handlerCalls, completions, failures, diskWrites, report, last>>

RaceNext ==
    \/ DispatchWriteFile
    \/ ExternalEdit
    \/ KeepAll
    \/ _handleApplySuggestion

SpecRace == LinesInit /\ [][RaceNext]_vars

\* ------------------------------------------------------- listFiles alone
\* a path is a sequence of characters
SEP == "/"

DenyWords ==
    {<<"n", "o", "d", "e", "_", "m", "o", "d", "u", "l", "e", "s">>,
     <<"d", "i", "s", "t">>,
     <<"b", "u", "i", "l", "d">>,
     <<"o", "u", "t">>,
     <<".", "g", "i", "t">>}

extensions ==
    {<<".", "j", "s">>, <<".", "j", "s", "x">>, <<".", "t", "s">>,
     <<".", "t", "s", "x">>, <<".", "h", "t", "m", "l">>, <<".", "c", "s", "s">>}

\* String.prototype.includes
Includes(text, word) ==
    \E i \in 1..(Len(text) - Len(word) + 1) : SubSeq(text, i, i + Len(word) - 1) = word

\* the if of scan: fullPath.includes('node_modules') || ... || fullPath.includes('.git')
Skipped(fullPath) == \E word \in DenyWords : Includes(fullPath, word)

\* the index of the last dot of a name, 0 when it has none
LastDot(name) ==
    IF \E i \in 1..Len(name) : name[i] = "."
    THEN CHOOSE i \in 1..Len(name) :
             name[i] = "." /\ \A j \in (i + 1)..Len(name) : name[j] # "."
    ELSE 0

\* path.extname(item): from the last dot on; a name that only starts with a dot
\* has no extension
extname(item) ==
    IF LastDot(item) <= 1 THEN <<>> ELSE SubSeq(item, LastDot(item), Len(item))

\* path.join(dir, item)
JoinPath(dir, item) == dir \o <<SEP>> \o item

\* an entry of a directory: a regular file, a directory that can be read
\* ("dir"), a directory whose readdirSync throws ("noread"), or an entry whose
\* statSync throws ("nostat")
File(name) == [name |-> name, kind |-> "file", entries |-> <<>>]
Dir(name, entries) == [name |-> name, kind |-> "dir", entries |-> entries]
Unreadable(name) == [name |-> name, kind |-> "noread", entries |-> <<>>]
Unstatable(name) == [name |-> name, kind |-> "nostat", entries |-> <<>>]

\* a scan that looks into every directory
RECURSIVE scan_NoDenyList(_, _)
scan_NoDenyList(dir, entries) ==
    IF entries = <<>> THEN <<>>
    ELSE LET item == Head(entries)
             fullPath == JoinPath(dir, item.name)
             rest == scan_NoDenyList(dir, Tail(entries))
         IN  IF item.kind = "nostat" THEN <<>>
             ELSE IF item.kind = "dir" THEN scan_NoDenyList(fullPath, item.entries) \o rest
             ELSE IF item.kind = "file" /\ extname(item.name) \in extensions
                  THEN <<fullPath>> \o rest
             ELSE rest

\* scan(dir) over the items readdirSync returned for dir, in their order: the
\* files it pushes. An exception of statSync leaves the for loop through the
\* catch of this directory; an exception of readdirSync is caught by the scan
\* of the directory that could not be read
RECURSIVE scan(_, _)
scan(dir, entries) ==
    IF entries = <<>> THEN <<>>
    ELSE LET item == Head(entries)
             fullPath == JoinPath(dir, item.name)
             rest == scan(dir, Tail(entries))
         IN  IF Skipped(fullPath) THEN rest
             ELSE IF item.kind = "nostat" THEN <<>>
             ELSE IF item.kind = "dir" THEN scan(fullPath, item.entries) \o rest
             ELSE IF item.kind = "file" /\ extname(item.name) \in extensions
                  THEN <<fullPath>> \o rest
             ELSE rest

\* names of files and directories
N_a_js == <<"a", ".", "j", "s">>
N_b_md == <<"b", ".", "m", "d">>
N_layout_js == <<"l", "a", "y", "o", "u", "t", ".", "j", "s">>
N_x_js == <<"x", ".", "j", "s">>
N_src == <<"s", "r", "c">>
N_lib == <<"l", "i", "b">>
N_dist == <<"d", "i", "s", "t">>
N_build == <<"b", "u", "i", "l", "d">>

Roots == {<<"/", "w", "s">>, <<"/", "c", "h", "e", "c", "k", "o", "u", "t">>}

\* the entries a scanned root may hold
RootEntries ==
    {File(N_a_js), File(N_b_md), File(N_layout_js), Unstatable(N_x_js),
     Unreadable(N_lib),
     Dir(N_dist, <<File(N_a_js)>>),
     Dir(N_src, <<File(N_a_js), Dir(N_build, <<File(N_a_js)>>)>>)}

\* the listings of at most MaxEntries entries with distinct names
Listings ==
    {l \in UNION {[1..n -> RootEntries] : n \in 1..MaxEntries} :
        \A i, j \in 1..Len(l) : i # j => l[i].name # l[j].name}

Trees == {[root |-> r, entries |-> l] : r \in Roots, l \in Listings}

\* a review run whose model has just asked for the files of a directory
ScanInit ==
    /\ revision \in Revisions
    /\ panel = "chatbotPanel.ts"
    /\ mode = "review"
    /\ pc = "calls"
    /\ baseDirectory = BaseDir
    /\ History = <<UserText(ReviewTask)>>
    /\ disk \in InitialDisks
    /\ calls = <<Call("list_files", BaseDir, <<>>, "", {"directory"})>>
    /\ cards = <<>>
    /\ inbox = <<>>
    /\ inferCalls = 1
    /\ returned = 1
    /\ dispatches = 0
    /\ handlerCalls = 0
    /\ completions = 0
    /\ failures = 0
    /\ diskWrites = 0
    /\ report = NoReport
    /\ running = {}
    /\ tree \in Trees
    /\ chat = NoChat
    /\ host = NoHost
    /\ last = NoStep

\* tools['list_files'](args) on the tree: scan(directory) and the result pushed
ListFilesOfTree ==
    /\ pc = "calls"
    /\ mode = "review"
    /\ Head(calls).name = "list_files"
    /\ dispatches' = dispatches + 1
    /\ handlerCalls' = handlerCalls + 1
    /\ PushResult(Head(calls), [files |-> scan(tree.root, tree.entries)])
    /\ last' = Sending(Step("list_files", Head(calls), <<>>, FALSE), ActionNotice)
    /\ UNCHANGED <<revision, running, tree, chat, host, panel, mode, baseDirectory, disk, cards, inbox,
                   inferCalls, returned, completions, failures, diskWrites, report>>

SpecScan == ScanInit /\ [][ListFilesOfTree]_vars

\* --------------------------------------------------- the chat input alone
\* the texts a user may send, as sequences of characters
T_empty == <<>>
T_blank == <<" ", " ">>
T_hello == <<"h", "e", "l", "l", "o">>
T_start_review == <<"s", "t", "a", "r", "t", " ", "r", "e", "v", "i", "e", "w">>
T_review_calc == <<"r", "e", "v", "i", "e", "w", " ", "c", "a", "l", "c">>
T_create_calculator == <<"c", "r", "e", "a", "t", "e", " ", "c", "a", "l", "c", "u", "l", "a", "t", "o", "r">>
T_Create_a_todo_app == <<"C", "r", "e", "a", "t", "e", " ", "a", " ", "t", "o", "d", "o", " ", "a", "p", "p">>
T_build_website_shop == <<"b", "u", "i", "l", "d", " ", "w", "e", "b", "s", "i", "t", "e", ":", " ", "s", "h", "o", "p">>

ChatTexts ==
    {T_empty, T_blank, T_hello, T_start_review, T_review_calc, T_create_calculator,
     T_Create_a_todo_app, T_build_website_shop}

\* String.prototype.toLowerCase on the characters of the modelled texts
LowerChar(c) == IF c = "C" THEN "c" ELSE IF c = "R" THEN "r" ELSE IF c = "B" THEN "b" ELSE c

toLowerCase(text) == [i \in 1..Len(text) |-> LowerChar(text[i])]

\* String.prototype.trim
trim(text) == TrimRight(TrimLeft(text))

WordChars ==
    {"a", "b", "c", "d", "e", "f", "g", "h", "i", "j", "k", "l", "m", "n", "o", "p", "q",
     "r", "s", "t", "u", "v", "w", "x", "y", "z", "_", "-"}

\* some reviewPattern matches: "review", white space, then a folder name
\* (/review\s+([a-zA-Z0-9_-]+)/i matches whenever one of the three does)
NamesFolder(text) ==
    LET lower == toLowerCase(text)
        word == <<"r", "e", "v", "i", "e", "w">>
    IN  \E i \in 1..Len(lower) :
            /\ i + Len(word) <= Len(lower)
            /\ SubSeq(lower, i, i + Len(word) - 1) = word
            /\ lower[i + Len(word)] = " "
            /\ \E j \in (i + Len(word) + 1)..Len(lower) :
                  /\ lower[j] \in WordChars
                  /\ \A k \in (i + Len(word))..(j - 1) : lower[k] = " "

ReviewWords ==
    {<<"s", "t", "a", "r", "t", " ", "r", "e", "v", "i", "e", "w">>,
     <<"r", "e", "v", "i", "e", "w", " ", "c", "o", "d", "e">>,
     <<"r", "e", "v", "i", "e", "w">>}

BuildWords ==
    {<<"b", "u", "i", "l", "d", " ", "w", "e", "b", "s", "i", "t", "e">>, <<"c", "r", "e", "a", "t", "e", " ", "w", "e", "b", "s", "i", "t", "e">>,
     <<"m", "a", "k", "e", " ", "w", "e", "b", "s", "i", "t", "e">>, <<"b", "u", "i", "l", "d", " ", "a", " ">>,
     <<"c", "r", "e", "a", "t", "e", " ", "a", " ">>, <<"m", "a", "k", "e", " ", "a", " ">>,
     <<" ", "c", "r", "e", "a", "t", "e", " ">>, <<" ", "b", "u", "i", "l", "d", " ">>,
     <<" ", "m", "a", "k", "e", " ">>}

\* an assistant message of the panel and a command handed to VS Code
Say(content) == [type |-> "message", content |-> content]
Show(type) == [type |-> type, content |-> ""]
Did(sent, commands) == [sent |-> sent, commands |-> commands]

\* _handleStartReview(folderPath)
_handleStartReview(apiKey) ==
    IF apiKey = "" THEN Did(<<Say("API key is required")>>, <<>>)
    ELSE Did(<<Say("Starting code review...")>>, <<"stike.reviewCodeFromChatbot">>)

\* _handleBuildWebsite(projectDescription)
_handleBuildWebsite(apiKey, folders) ==
    IF apiKey = "" THEN Did(<<Say("API key is required")>>, <<>>)
    ELSE IF folders = 0 THEN Did(<<Say("Please open a workspace folder first")>>, <<>>)
    ELSE Did(<<>>, <<"stike.buildWebsiteFromChatbot">>)

\* _handleUserMessage(text): what the panel sends and which command it runs;
\* found says whether _findFolderInWorkspace finds the folder the text names
UserMessage(text, apiKey, folders, found) ==
    LET lowerText == toLowerCase(text) IN
    IF text = <<>> \/ trim(text) = <<>> THEN Did(<<>>, <<>>)
    ELSE IF \E w \in ReviewWords : Includes(lowerText, w)
    THEN IF folders = 0 THEN Did(<<Say("Please open a workspace folder first")>>, <<>>)
         ELSE IF NamesFolder(text) /\ found THEN _handleStartReview(apiKey)
         ELSE IF folders = 1 THEN _handleStartReview(apiKey)
         ELSE Did(<<Say("Multiple workspace folders detected"), Show("showFolderSelection")>>,
                  <<>>)
    ELSE IF \E w \in BuildWords : Includes(lowerText, w)
    THEN _handleBuildWebsite(apiKey, folders)
    ELSE Did(<<Say("I can help you")>>, <<>>)

ApiKeys == {"", "key"}
MaxFolders == 2

\* a request arrives at a panel with or without a stored key and with no, one
\* or several workspace folders
ChatInit ==
    /\ revision = "part_002"
    /\ panel = "chatbotPanel.ts"
    /\ mode = "none"
    /\ pc = "idle"
    /\ baseDirectory = ""
    /\ History = <<>>
    /\ calls = <<>>
    /\ disk \in InitialDisks
    /\ cards = <<>>
    /\ inbox = <<>>
    /\ inferCalls = 0
    /\ returned = 0
    /\ dispatches = 0
    /\ handlerCalls = 0
    /\ completions = 0
    /\ failures = 0
    /\ diskWrites = 0
    /\ report = NoReport
    /\ running = {}
    /\ tree = NoTree
    /\ host = NoHost
    /\ chat \in {[NoChat EXCEPT !.text = t, !.apiKey = k, !.folders = n, !.found = f] :
                    t \in ChatTexts, k \in ApiKeys, n \in 0..MaxFolders, f \in BOOLEAN}
    /\ last = NoStep

\* case 'sendMessage': await this._handleUserMessage(message.text)
_handleUserMessage ==
    /\ ~chat.handled
    /\ LET did == UserMessage(chat.text, chat.apiKey, chat.folders, chat.found) IN
         chat' = [chat EXCEPT !.handled = TRUE, !.sent = did.sent, !.commands = did.commands]
    /\ UNCHANGED <<revision, running, tree, host, panel, mode, pc, baseDirectory, History,
                   calls, disk, cards, inbox, inferCalls, returned, dispatches, handlerCalls,
                   completions, failures, diskWrites, report, last>>

SpecChat == ChatInit /\ [][_handleUserMessage]_vars

\* ------------------------------------------------- two runs at the same time
MaxRuns == 2
MaxTurns == 3

Folders == {BaseDir, "/checkout"}

\* a turn of the History of run r
RunTurn(r, role) == [role |-> role, run |-> r]

\* reviewCode / buildWebsite up to the first await: the base directory of the
\* agent is set and the History of the run is seeded
NewRun(kind, agent, folder, r) ==
    [kind |-> kind, agent |-> agent, folder |-> folder, pc |-> "infer",
     History |-> <<RunTurn(r, "user")>>, contents |-> <<>>, base |-> ""]

\* one agent for all invocations: the command keeps a single CodeReviewer
StartRun_SharedAgent(kind, folder) ==
    /\ Len(host.runs) < MaxRuns
    /\ host' = [agents |-> <<[baseDirectory |-> folder]>>,
                runs |-> Append(host.runs, NewRun(kind, 1, folder, Len(host.runs) + 1))]

\* const reviewer = new CodeReviewer(...); await reviewer.reviewCode(folderPath)
StartRun(kind, folder) ==
    /\ Len(host.runs) < MaxRuns
    /\ host' = [agents |-> Append(host.agents, [baseDirectory |-> folder]),
                runs |-> Append(host.runs,
                                NewRun(kind, Len(host.agents) + 1, folder, Len(host.runs) + 1))]

HostUnchanged ==
    UNCHANGED <<revision, running, tree, chat, panel, mode, pc, baseDirectory, History, calls,
                disk, cards, inbox, inferCalls, returned, dispatches, handlerCalls,
                completions, failures, diskWrites, report, last>>

\* registerCommand('stike.reviewCodeFromChatbot', async (folderPath, apiKey) => ...)
reviewCodeFromChatbot ==
    /\ \E folder \in Folders : StartRun("review", folder)
    /\ HostUnchanged

\* the command stike.buildWebsiteFromChatbot, which starts buildWebsite
buildWebsiteFromChatbot ==
    /\ \E folder \in Folders : StartRun("build", folder)
    /\ HostUnchanged

\* await this.ai.models.generateContent({contents: History}) of run r
RunGenerateContent(r) ==
    /\ host.runs[r].pc = "infer"
    /\ host' = [host EXCEPT !.runs[r].contents = host.runs[r].History,
                             !.runs[r].pc = "model"]
    /\ HostUnchanged

\* the model answers run r with function calls: the first tool is awaited and
\* resolves paths against this.baseDirectory
RunDispatch(r) ==
    /\ host.runs[r].pc = "model"
    /\ Len(host.runs[r].History) + 2 <= MaxTurns
    /\ host' = [host EXCEPT !.runs[r].base = host.agents[host.runs[r].agent].baseDirectory,
                             !.runs[r].pc = "tool"]
    /\ HostUnchanged

\* History.push of the model turn and of the function response of run r
RunPushResult(r) ==
    /\ host.runs[r].pc = "tool"
    /\ host' = [host EXCEPT !.runs[r].History =
                                 host.runs[r].History \o
                                     <<RunTurn(r, "model"), RunTurn(r, "user")>>,
                             !.runs[r].pc = "infer"]
    /\ HostUnchanged

\* the model answers run r with text: break
RunText(r) ==
    /\ host.runs[r].pc = "model"
    /\ host' = [host EXCEPT !.runs[r].pc = "done"]
    /\ HostUnchanged

HostInit ==
    /\ revision = "part_002"
    /\ panel = "chatbotPanel.ts"
    /\ mode = "none"
    /\ pc = "idle"
    /\ baseDirectory = ""
    /\ History = <<>>
    /\ calls = <<>>
    /\ disk = [p \in {} |-> <<>>]
    /\ cards = <<>>
    /\ inbox = <<>>
    /\ inferCalls = 0
    /\ returned = 0
    /\ dispatches = 0
    /\ handlerCalls = 0
    /\ completions = 0
    /\ failures = 0
    /\ diskWrites = 0
    /\ report = NoReport
    /\ running = {}
    /\ tree = NoTree
    /\ chat = NoChat
    /\ host = NoHost
    /\ last = NoStep

HostNext ==
    \/ reviewCodeFromChatbot
    \/ buildWebsiteFromChatbot
    \/ \E r \in 1..Len(host.runs) :
          \/ RunGenerateContent(r)
          \/ RunDispatch(r)
          \/ RunPushResult(r)
          \/ RunText(r)

SpecHost == HostInit /\ [][HostNext]_vars

\* ------------------------------------------------------------------ claims
\* what the file named by the last step holds now, next to what it held before
FileAsBefore(p) ==
    /\ Exists(disk, p) = last.existed
    /\ last.existed => disk[p] = last.orig

LastTurn == History[Len(History)]

\* an edit is staged while a control that applies it is visible and enabled
Staged(card) ==
    /\ ~card.hidden
    /\ IF panel = "chatbotPanel.ts"
       THEN ~card.applyDisabled \/ (~card.lineBtnsDisabled /\ VisiblePairs(card) # {})
       ELSE ~card.applyDisabled

\* C1: in a review run no write_file dispatch changes the content of a file on
\* disk: a step that changes a project file is the processing of an apply decision
\* for a staged edit
C1_ReviewWritesOnlyOnApply ==
    [][(mode = "review" /\ disk' # disk) => last'.op = "apply"]_vars

\* the handler of the last dispatched call failed
HandlerFailed ==
    \/ last.op = "read_file" /\ ~last.existed
    \/ last.op = "executeCommand" /\ last.outcome \in {"exit_nonzero", "exit_nonzero_benign", "stderr_other", "nothing"}

\* C2: a failing tool handler yields a ToolResult turn carrying the error, appended
\* to the conversation, and the run goes on: it never terminates the run
C2_HandlerFailureContinues ==
    HandlerFailed =>
        /\ pc \in {"infer", "calls"}
        /\ failures = 0
        /\ Len(History) = last.nHistory + 2
        /\ LastTurn.kind = "functionResponse"
        /\ LastTurn.name = last.call.name

\* C3: a response without tool calls makes the run emit exactly one completion
\* report carrying the response's text, after which it issues no inference call and
\* dispatches no tool; one tool call followed by plain text gives exactly one
\* dispatch and one completion report
C3_TextIsTerminal ==
    /\ completions <= 1
    /\ (report.kind = "completion") <=> (completions = 1)
    /\ last.op = "inferText" => report.kind = "completion"
    /\ report.kind = "completion" =>
          /\ pc = "done"
          /\ failures = 0
          /\ last.op = "inferText"
          /\ report.output = SummaryOf(last.orig)
          /\ report.chat = (IF mode = "review" /\ revision = "part_002"
                            THEN FormatSummary(report.output) ELSE report.output)
          /\ inferCalls = last.nInfer + 1
          /\ dispatches = last.nDispatch
    /\ (report.kind = "completion" /\ inferCalls = 2 /\ returned = 1) =>
          (dispatches = 1 /\ completions = 1)

C3_Witness ==
    /\ pc = "done"
    /\ report.kind = "completion"
    /\ inferCalls = 2
    /\ returned = 1
    /\ dispatches = 1
    /\ handlerCalls = 1

\* C4: a failed inference call makes the run emit exactly one failure report and
\* stop without a retry: no inference call and no dispatch follows, and a run whose
\* first inference call fails has dispatched nothing
C4_InferenceFailureIsFatal ==
    /\ failures <= 1
    /\ last.op = "inferFail" =>
          /\ pc = "done"
          /\ failures = 1
          /\ completions = 0
          /\ report.kind = "failure"
          /\ report.reason = "inference"
          /\ inferCalls = last.nInfer + 1
          /\ dispatches = last.nDispatch
    /\ report.reason = "inference" => last.op = "inferFail"
    /\ (report.reason = "inference" /\ inferCalls = 1) =>
          (dispatches = 0 /\ handlerCalls = 0)

C4_Witness ==
    /\ pc = "done"
    /\ report.reason = "inference"
    /\ failures = 1
    /\ inferCalls = 1
    /\ dispatches = 0

C4_WitnessLater ==
    /\ pc = "done"
    /\ report.reason = "inference"
    /\ inferCalls = 2
    /\ dispatches > 0

C6_UnknownToolResultAppended ==
    last.op = "unknown" =>
        /\ Len(History) = last.nHistory + 2
        /\ LastTurn = ToolResult(last.call.name,
                                 [success |-> FALSE, message |-> "unknown tool"])

C9_ResolveRemovesEdit ==
    /\ last.op = "apply" =>
          /\ Exists(disk, cards[last.card].filePath)
          /\ disk[cards[last.card].filePath] = cards[last.card].suggestedContent
    /\ \A i \in 1..Len(cards) :
          (cards[i].writes > 0 \/ cards[i].hidden) => ~Staged(cards[i])

\* C10: an edit goes from staged to applied or discarded and stays there: no later
\* decision for it is accepted, so it causes at most one disk write
C10_AtMostOneWritePerEdit ==
    \A i \in 1..Len(cards) : cards[i].writes <= 1


\* C11: an apply decision for an edit that has been applied before is a no-op:
\* processing it leaves the file as it was
C11_UnstagedDecisionIsNoOp ==
    (last.op = "apply" /\ cards[last.card].writes > 1) =>
        FileAsBefore(cards[last.card].filePath)

\* the step acts on card i: a click on one of its controls or the processing of
\* its apply message
Resolves(i) == Len(cards') = Len(cards) /\ cards'[i] # cards[i]

\* C12: resolving one edit leaves every other edit, and every file other than
\* the one the edit targets, as they were
C12_ResolveFrame ==
    [][\A i \in 1..Len(cards) :
          (cards' # cards /\ Resolves(i)) =>
              /\ \A j \in (1..Len(cards)) \ {i} : cards'[j] = cards[j]
              /\ \A q \in (DOMAIN disk \cup DOMAIN disk') \ {cards[i].filePath} :
                    /\ q \in DOMAIN disk /\ q \in DOMAIN disk'
                    /\ disk'[q] = disk[q]]_vars

\* two edits for two files are staged and one of them has been applied
C12_Witness ==
    /\ Len(cards) = 2
    /\ cards[1].filePath # cards[2].filePath
    /\ last.op = "apply"
    /\ \E i \in 1..2 :
          /\ last.card = i
          /\ cards[i].writes = 1
          /\ disk[cards[i].filePath] = cards[i].suggestedContent
          /\ cards[3 - i].writes = 0
          /\ Staged(cards[3 - i])
          /\ ~cards[3 - i].lineBtnsDisabled

\* C13: the conversation of a run only grows at its end: after every step the
\* History sent to generateContent so far is a prefix of the History that will
\* be sent next
C13_HistoryAppendOnly ==
    [][History # <<>> =>
          /\ Len(History') >= Len(History)
          /\ SubSeq(History', 1, Len(History)) = History]_vars

\* a third generateContent call is issued with two rounds of results appended
C13_Witness ==
    /\ inferCalls = 3
    /\ Len(History) >= 5
    /\ last.nHistory = Len(History)

TaskOf(m) == IF m = "review" THEN ReviewTask ELSE BuildTask

\* C14: the first turn is the user text with the task and the turns after it
\* come in pairs: a function call of the model and, right after it, the
\* function response of the same name
C14_TurnsArePaired ==
    History # <<>> =>
        /\ History[1] = UserText(TaskOf(mode))
        /\ Len(History) % 2 = 1
        /\ \A k \in 1..((Len(History) - 1) \div 2) :
              /\ History[2 * k].role = "model"
              /\ History[2 * k].kind = "functionCall"
              /\ History[2 * k + 1].role = "user"
              /\ History[2 * k + 1].kind = "functionResponse"
              /\ History[2 * k + 1].name = History[2 * k].name

\* two calls of different tools have been answered
C14_Witness ==
    /\ Len(History) >= 5
    /\ History[2].name # History[4].name
    /\ History[5].kind = "functionResponse"

\* C16: a run ends only on a response without function calls or on a failed
\* generateContent call
C16_StopsOnlyOnTextOrInferenceFailure ==
    pc = "done" => report.reason \in {"text", "inference"}

\* C18: the diff of a text against itself has no removed and no added line
C18_DiffOfEqualTextsIsEmpty ==
    \A i \in 1..Len(cards) :
        (last.op = "generateDiff" /\ cards[i].originalContent = cards[i].suggestedContent) =>
            cards[i].diff = [removed |-> <<>>, added |-> <<>>]

\* a text of two lines has been compared with itself
C18_Witness ==
    /\ last.op = "generateDiff"
    /\ cards # <<>>
    /\ cards[1].originalContent = cards[1].suggestedContent
    /\ Len(Split(cards[1].originalContent)) = 2

\* C19: the diff against a given old text determines the new text: no other new
\* text has the same diff against the same old text
C19_DiffDeterminesNewText ==
    \A i \in 1..Len(cards) :
        last.op = "generateDiff" =>
            \A other \in Texts :
                other # cards[i].suggestedContent =>
                    generateDiff(cards[i].originalContent, other) # cards[i].diff

\* the lines of a sequence paired with their indices
Indexed(lines) == [i \in 1..Len(lines) |-> <<i, lines[i]>>]

Second(pairs) == [i \in 1..Len(pairs) |-> pairs[i][2]]

\* the lines of these that have no line, or a different line, at their index in those
PositionalLines(these, those) ==
    LET Differs(p) == p[1] > Len(those) \/ those[p[1]] # p[2]
    IN  Second(SelectSeq(Indexed(these), Differs))

\* C20: removed is the old lines, in index order, that have no line or another
\* line at their index in the new text, and added is the new lines that have no
\* line or another line at their index in the old text
C20_DiffIsPositional ==
    \A i \in 1..Len(cards) :
        last.op = "generateDiff" =>
            LET oldLines == Split(cards[i].originalContent)
                newLines == Split(cards[i].suggestedContent)
            IN  /\ cards[i].diff.removed = PositionalLines(oldLines, newLines)
                /\ cards[i].diff.added = PositionalLines(newLines, oldLines)

\* two texts of two lines that agree on one line and differ on the other
C20_Witness ==
    /\ last.op = "generateDiff"
    /\ cards # <<>>
    /\ Len(Split(cards[1].originalContent)) = 2
    /\ Len(Split(cards[1].suggestedContent)) = 2
    /\ Len(cards[1].diff.removed) = 1
    /\ Len(cards[1].diff.added) = 1

\* the file lies inside the base directory of the run
InsideBase(p) == p \in Paths

\* C17: no tool dispatch stages or writes a file outside the base directory
C17_ToolsStayInsideBase ==
    /\ \A p \in DOMAIN disk : InsideBase(p)
    /\ \A i \in 1..Len(cards) : InsideBase(cards[i].filePath)

\* the calls of the current batch that have been taken from it, in History
AnsweredCalls == (Len(History) - 1) \div 2

\* C15: at most one handler is in progress; while one is, the results of all
\* handlers called before it are in History and the call it serves is the
\* first of the batch not yet processed; no generateContent call is issued
\* while a handler is in progress
C15_OneHandlerAtATime ==
    /\ Cardinality(running) <= 1
    /\ pc = "infer" => running = {}
    /\ \A h \in running :
          /\ h.id = handlerCalls
          /\ AnsweredCalls = handlerCalls - 1
          /\ calls # <<>> /\ h.call = Head(calls)

\* the second call of a batch is in progress after the first was answered
C15_Witness ==
    /\ pc = "await"
    /\ Cardinality(running) = 1
    /\ inferCalls = 1
    /\ handlerCalls = 2
    /\ AnsweredCalls = 1
    /\ Len(calls) = 1

\* the files list_files has just returned
ScanResult == {LastTurn.body.result.files[i] : i \in 1..Len(LastTurn.body.result.files)}

Scanned == last.op = "list_files" /\ tree # NoTree

\* every regular file of a tree, with its path and name, and whether a directory
\* above it carries a deny-listed name
RECURSIVE Walk(_, _, _)
Walk(dir, entries, denied) ==
    IF entries = <<>> THEN {}
    ELSE LET item == Head(entries)
             fullPath == JoinPath(dir, item.name)
         IN  (IF item.kind = "file"
              THEN {[path |-> fullPath, name |-> item.name, beneathDenied |-> denied]}
              ELSE IF item.kind = "dir"
              THEN Walk(fullPath, item.entries, denied \/ item.name \in DenyWords)
              ELSE {})
             \cup Walk(dir, Tail(entries), denied)

\* C21: the scan result holds no file beneath a directory with a deny-listed name
C21_NoFileBeneathDeniedDirectory ==
    Scanned =>
        \A f \in Walk(tree.root, tree.entries, FALSE) :
            f.beneathDenied => f.path \notin ScanResult

\* a tree with an allowed file beneath dist and an allowed file that is returned
C21_Witness ==
    /\ Scanned
    /\ ScanResult # {}
    /\ \E f \in Walk(tree.root, tree.entries, FALSE) :
          f.beneathDenied /\ extname(f.name) \in extensions

\* C22: an entry that cannot be read or stat'ed does not cost the scan the
\* allowed files of its siblings, before or after it in the listing
C22_UnreadableEntryIsSkipped ==
    Scanned =>
        \A i \in 1..Len(tree.entries) :
            tree.entries[i].kind \in {"noread", "nostat"} =>
                \A j \in (1..Len(tree.entries)) \ {i} :
                    \A f \in Walk(tree.root, <<tree.entries[j]>>, FALSE) :
                        (extname(f.name) \in extensions /\ ~Skipped(f.path)) =>
                            f.path \in ScanResult

\* C29: the scan result holds every file with an allowed extension that is not
\* beneath a deny-listed directory, in a tree whose entries can all be stat'ed
C29_EveryAllowedFileIsFound ==
    (Scanned /\ \A i \in 1..Len(tree.entries) : tree.entries[i].kind # "nostat") =>
        \A f \in Walk(tree.root, tree.entries, FALSE) :
            (extname(f.name) \in extensions /\ ~f.beneathDenied) =>
                f.path \in ScanResult

\* C23: in a build run a call that carries content and filePath writes the
\* content to the file at once, stages nothing, and returns success
C23_BuildWritesAtOnce ==
    (mode = "build" /\ last.op = "executeCommand"
        /\ {"content", "filePath"} \subseteq last.call.given) =>
        /\ last.outcome = "write"
        /\ diskWrites = last.nWrites + 1
        /\ cards = <<>>
        /\ LastTurn.body.result.success

\* C24: a shell command of a build run is reported as failed exactly when its
\* standard error is not empty and does not contain 'already exists'
C24_FailureIffUnknownStderr ==
    (mode = "build" /\ last.op = "executeCommand" /\ last.outcome \in ExecOutcomes) =>
        (~LastTurn.body.result.success <=> Stderr(last.outcome) = "other")

\* the last step met an error: a failed generateContent call, a call of an
\* unknown function, or a handler that failed
ErrorStep == last.op \in {"inferFail", "unknown"} \/ HandlerFailed

\* C26: every step that meets an error tells the chat about it
C26_EveryErrorIsNotified ==
    ErrorStep => last.sent \cap {"error", "warning"} # {}

\* C30: a run that has ended has sent progressComplete with its last step
C30_ProgressDoneOnTermination ==
    pc = "done" => "progressComplete" \in last.sent

\* the messages of the panel the user reads
UserFacing == SelectSeq(chat.sent, LAMBDA m : m.type = "message")

\* C25: a request with an empty text, or one made without a stored key, starts
\* no run and is answered with exactly one message
C25_InputErrorIsRejectedWithOneMessage ==
    (chat.handled /\ (trim(chat.text) = <<>> \/ chat.apiKey = "")) =>
        /\ chat.commands = <<>>
        /\ inferCalls = 0
        /\ Len(UserFacing) = 1

\* the text is the word create and one project name
IsCreateCommand(text) ==
    LET create == <<"c", "r", "e", "a", "t", "e", " ">> IN
        /\ Len(text) > Len(create)
        /\ SubSeq(text, 1, Len(create)) = create
        /\ \A i \in (Len(create) + 1)..Len(text) : text[i] \in WordChars

\* C28: with a key stored and a workspace folder open, 'create <project-name>'
\* starts a website build
C28_CreateStartsBuild ==
    (chat.handled /\ chat.apiKey # "" /\ chat.folders >= 1 /\ IsCreateCommand(chat.text)) =>
        chat.commands = <<"stike.buildWebsiteFromChatbot">>

\* C27: every inference call of a run is sent only turns of that run, and the
\* base directory a run resolves paths against is the one it was started with
C27_RunsAreIndependent ==
    \A r \in 1..Len(host.runs) :
        /\ \A i \in 1..Len(host.runs[r].contents) : host.runs[r].contents[i].run = r
        /\ host.runs[r].base \in {"", host.runs[r].folder}
        /\ host.agents[host.runs[r].agent].baseDirectory = host.runs[r].folder

\* two runs on different folders are both waiting for the model, each after a
\* tool call of its own
C27_Witness ==
    /\ Len(host.runs) = 2
    /\ host.runs[1].folder # host.runs[2].folder
    /\ \A r \in {1, 2} :
          /\ host.runs[r].pc = "model"
          /\ Len(host.runs[r].contents) = 3
          /\ host.runs[r].base # ""

\* C37: the added lines outnumber the removed lines by as much as the lines of
\* the new text outnumber the lines of the old text
C37_DiffLengthsBalance ==
    \A i \in 1..Len(cards) :
        last.op = "generateDiff" =>
            Len(cards[i].diff.added) - Len(cards[i].diff.removed) =
                Len(Split(cards[i].suggestedContent)) - Len(Split(cards[i].originalContent))

\* a text has been compared with a longer one that also changes its first line
C37_Witness ==
    /\ last.op = "generateDiff"
    /\ cards # <<>>
    /\ Len(Split(cards[1].suggestedContent)) > Len(Split(cards[1].originalContent))
    /\ cards[1].diff.removed # <<>>
    /\ Len(cards[1].diff.added) > Len(cards[1].diff.removed)

\* C38: a write_file to a path that is not on disk is compared with the empty
\* text, which is one empty line: added holds every line of the proposed content
\* and removed holds one empty line, unless the first proposed line is empty, and
\* then the first line is in neither list
C38_NewFileDiff ==
    (last.op = "write_file" /\ ~last.existed) =>
        /\ last.orig = <<>>
        /\ Len(cards) = last.nCards + 1 =>
              LET edit == cards[Len(cards)]
                  lines == Split(last.call.content)
              IN  /\ edit.originalContent = <<>>
                  /\ IF lines[1] # <<>>
                     THEN /\ edit.diff.added = lines
                          /\ edit.diff.removed = << <<>> >>
                     ELSE /\ edit.diff.added = Tail(lines)
                          /\ edit.diff.removed = <<>>

\* a new file of two lines has been proposed
C38_Witness ==
    /\ last.op = "write_file"
    /\ ~last.existed
    /\ Len(cards) = 1
    /\ Len(cards[1].diff.added) = 2
    /\ cards[1].diff.removed = << <<>> >>

\* a new file whose first line is empty has been proposed
C38_WitnessEmptyFirstLine ==
    /\ last.op = "write_file"
    /\ ~last.existed
    /\ Len(cards) = 1
    /\ Split(last.call.content)[1] = <<>>
    /\ cards[1].diff.added # <<>>

\* C36: a shell command of a build run that exits with a non-zero status yields
\* a result with success false, whatever its standard error says, and the run
\* goes on
C36_NonZeroExitIsFailureResult ==
    (last.op = "executeCommand" /\ last.outcome \in {"exit_nonzero", "exit_nonzero_benign"}) =>
        /\ Len(History) = last.nHistory + 2
        /\ LastTurn.kind = "functionResponse"
        /\ LastTurn.body.result.success = FALSE
        /\ pc \in {"infer", "calls"}
        /\ failures = 0

\* a command has exited with a non-zero status and 'already exists' on its
\* standard error, and the loop is about to call the model again
C36_Witness ==
    /\ last.op = "executeCommand"
    /\ last.outcome = "exit_nonzero_benign"
    /\ LastTurn.body.result.success = FALSE
    /\ pc = "infer"

\* the edits staged for the file the last step named, none of them applied
StagedFor(p) == {i \in 1..Len(cards) : cards[i].filePath = p /\ cards[i].writes = 0}

\* no edit of the file has been applied
NoneApplied(p) == \A j \in 1..Len(cards) : cards[j].filePath = p => cards[j].writes = 0

\* the model was told that its write_file of edit i succeeded
ToldSuccess(i) ==
    \E k \in 2..Len(History) :
        /\ History[k] = ToolResult("write_file", [success |-> TRUE])
        /\ History[k - 1].kind = "functionCall"
        /\ History[k - 1].body.path = cards[i].filePath
        /\ History[k - 1].body.content = cards[i].suggestedContent

\* C34: a read_file of a path with a staged, unapplied edit returns what the file
\* held when the edit was staged and not the proposed content, although the
\* write_file was answered with success; for a file that does not exist yet the
\* read fails as it did before the edit
C34_ReadAfterStagedWriteSeesOriginal ==
    \A i \in StagedFor(last.call.path) :
        (last.op = "read_file" /\ NoneApplied(last.call.path)) =>
            /\ ToldSuccess(i)
            /\ IF last.existed
               THEN /\ LastTurn = ToolResult("read_file",
                                             [content |-> cards[i].originalContent])
                    /\ LastTurn.body.result.content # cards[i].suggestedContent
               ELSE /\ cards[i].originalContent = <<>>
                    /\ Len(History) = last.nHistory
                    /\ pc = "done"

\* an edit of an existing file is staged and the file has been read after it
C34_Witness ==
    /\ last.op = "read_file"
    /\ last.existed
    /\ StagedFor(last.call.path) # {}
    /\ LastTurn.body.result.content = cards[1].originalContent
    /\ cards[1].filePath = last.call.path
    /\ cards[1].suggestedContent # cards[1].originalContent

\* C33: no two staged edits have the same target file
C33_OneStagedEditPerFile ==
    \A i, j \in 1..Len(cards) :
        (i # j /\ Staged(cards[i]) /\ Staged(cards[j])) =>
            cards[i].filePath # cards[j].filePath

\* C31: an apply decision is processed with the write of the proposed content,
\* whether the run that staged the edit is waiting for the model, has completed
\* or has failed; the run itself ends without regard to the staged edits
C31_ApplyIsAcceptedAtAnyTime ==
    (last.op = "apply" /\ pc \in {"infer", "done"}) =>
        /\ cards[last.card].writes >= 1
        /\ Exists(disk, cards[last.card].filePath)
        /\ disk[cards[last.card].filePath] = cards[last.card].suggestedContent

\* the run has completed while two edits were staged, and one of them has been
\* applied after that
C31_Witness ==
    /\ pc = "done"
    /\ report.reason = "text"
    /\ completions = 1
    /\ Len(cards) = 2
    /\ last.op = "apply"
    /\ cards[last.card].writes = 1
    /\ Staged(cards[3 - last.card])
    /\ cards[3 - last.card].writes = 0

\* an edit has been applied while the run waits for the model
C31_WitnessRunning ==
    /\ pc = "infer"
    /\ last.op = "apply"
    /\ cards[last.card].writes = 1

\* an edit has been applied after the run has failed
C31_WitnessFailed ==
    /\ pc = "done"
    /\ report.reason = "inference"
    /\ failures = 1
    /\ last.op = "apply"
    /\ cards[last.card].writes = 1

\* the card whose only use so far is the Keep button of one of its lines
KeptByLine(i) ==
    /\ panel = "chatbotPanel.ts"
    /\ cards[i].lineBtnsDisabled
    /\ ~cards[i].applyDisabled

C32_ApplyOverwritesExternalEdit ==
    (last.op = "apply" /\ last.orig # cards[last.card].originalContent) =>
        /\ cards[last.card].writes >= 1
        /\ disk[cards[last.card].filePath] = cards[last.card].suggestedContent
        /\ last.sent = {"message"}
        /\ failures = 0

\* the file was changed by another program after the edit was staged, to a
\* content that is neither the original nor the proposed one, and the apply has
\* replaced it
C32_Witness ==
    /\ last.op = "apply"
    /\ last.existed
    /\ last.orig # cards[last.card].originalContent
    /\ last.orig # cards[last.card].suggestedContent
    /\ disk[cards[last.card].filePath] = cards[last.card].suggestedContent
====
